---- MODULE Spec2Model ----
(***************************************************************************)
(* Model selection and inference orchestration of ai-chat.                 *)
(*                                                                         *)
(* Strings are sequences of symbols; a symbol stands for a chunk of        *)
(* characters ("hf_bartowski_", ".gguf", ":", "/" ...).  The string        *)
(* functions the code uses (split, includes, toLowerCase, replace,         *)
(* basename, endsWith) are defined on these sequences.                     *)
(*                                                                         *)
(* An optional value (null, or a value) is a sequence of length 0 or 1.    *)
(***************************************************************************)
EXTENDS Integers, Sequences, FiniteSets, TLC

VARIABLES
    \* ---- server: model selection (model-selector.js, routes/models.js)
    disk,           \* names of the files in MODELS_DIR
    settings,       \* settings row 'selected_model': <<>> (no row) or <<value>>
    ramGB,          \* what getSystemRamGB() returns on this machine
    pc,             \* position of the request handler: "idle" before the request,
                    \* "done" after it
    stream,         \* records written to the event stream of the last request
    reply,          \* kind of the last response: "none", "json", "sse", "404", "400"
    replyBody,      \* body of the last JSON response (an optional value)
    ended,          \* res.end() was called on the event stream
    models,         \* autoSelect: snapshot of listLocalModels()
    candidates,     \* autoSelect: candidate tiers, in trial order
    ci,             \* autoSelect: index of the current candidate
    modelPath,      \* autoSelect / select: path being tested or downloaded
    reqId,          \* select: the submitted id
    settingsBefore, \* history: settings row when the request started
    lastTest,       \* history: result of the speed test that just returned, else <<>>
    available,      \* result of the last listAvailableModels() call
    gotModel,       \* result of the last getSelectedModel() call
    \* ---- inference engine (llm.js)
    loadedModel,    \* handle of the cached model, 0 if none
    loadedModelPath,\* path of the cached model, "null" if none
    handles,        \* handle -> [path, state, disposes]: every model object created
    epc,            \* per caller: position in chatStream / loadModel
    epath,          \* per caller: the modelPath argument
    emodel,         \* per caller: the handle loadModel works on or returned
    \* ---- chat send (routes/chats.js)
    cpc,            \* position of the chat-send handler
    cmodel,         \* the model name the handler sends upstream
    cstream,        \* records written to the chat event stream
    cended,         \* res.end() was called on the chat event stream
    fullResponse,   \* tokens accumulated by the handler
    saved,          \* assistant messages inserted into the database
    upstreamN,      \* number of upstream lines consumed
    creply,         \* kind of the chat response: "none", "sse"
    cstart,         \* history: settings row when the chat send started
    titleModel,     \* the model name passed to generateTitle, <<>> if not called
    cancelled,      \* the client closed the connection of the chat send
    cancelAt,       \* history: <<records written, lines consumed>> at that moment
    writes,         \* number of settings writes by other requests during the send
    lastWrite,      \* history: the row the last of those writes left
    \* ---- two Auto-Select runs in succession
    outcome,        \* per tier name: what its download and its speed test do
    runNo,          \* 1 or 2 while the runs are made, 0 otherwise
    firstSel,       \* what the first run selected, null if nothing
    firstDisk,      \* the models directory when the first run started
    \* ---- RAM probe (getSystemRamGB)
    platform,       \* process.platform
    cmdOut,         \* what execSync does: null if it throws, else the output
    ramReturn,      \* what getSystemRamGB() returned, NotCalled before the call
    \* ---- client store (stores/chat.js) and chat window
    modelStatus,    \* modelStatus.value: the last status fetched
    autoSelecting,  \* autoSelecting.value
    downloading,    \* downloading.value
    streaming,      \* streaming.value
    mpc,            \* App.vue onMounted: "start", "mounted"
    apc,            \* autoSelectModel: "idle", "posted"
    spc,            \* selectModel: "idle", "posted"
    \* ---- identifiers of model files
    resolved        \* result of the last resolveModelId() call, <<"none">> before it

envVars == <<disk, settings, ramGB>>
reqVars == <<pc, stream, reply, replyBody, ended, models, candidates, ci, modelPath, reqId,
             settingsBefore, lastTest, available, gotModel>>
selVars == <<envVars, reqVars>>
engVars == <<loadedModel, loadedModelPath, handles, epc, epath, emodel>>
chatVars == <<cpc, cmodel, cstream, cended, fullResponse, saved, upstreamN, creply, cstart,
              titleModel, cancelled, cancelAt, writes, lastWrite>>
runVars == <<outcome, runNo, firstSel, firstDisk>>
probeVars == <<platform, cmdOut, ramReturn>>
uiVars == <<modelStatus, autoSelecting, downloading, streaming, mpc, apc, spc>>
otherVars == <<probeVars, uiVars, resolved>>
vars == <<selVars, engVars, chatVars, runVars, otherVars>>

----------------------------------------------------------------------------
(* Strings *)

Null == <<>>
Some(v) == <<v>>

\* String.prototype.toLowerCase, symbol by symbol
LowerSym(c) ==
    CASE c = "Mistral-Small-Instruct-2409" -> "mistral-small-instruct-2409"
      [] c = "Ministral-8B-Instruct-2410" -> "ministral-8b-instruct-2410"
      [] c = "Phi-3.5-mini-instruct" -> "phi-3.5-mini-instruct"
      [] c = "mistralai_Ministral-3-3B-Instruct-2512" -> "mistralai_ministral-3-3b-instruct-2512"
      [] c = "-GGUF" -> "-gguf"
      [] c = "-Q4_K_M" -> "-q4_k_m"
      [] c = "Q4_K_M" -> "q4_k_m"
      [] c = "Custom" -> "custom"
      [] OTHER -> c

toLowerCase(s) == [i \in DOMAIN s |-> LowerSym(s[i])]

\* String.prototype.includes: sub occurs in s as a contiguous run
includes(s, sub) ==
    \E i \in 0..(Len(s) - Len(sub)) :
        \A j \in 1..Len(sub) : s[i + j] = sub[j]

endsWith(s, c) == Len(s) > 0 /\ s[Len(s)] = c

\* index of the first / last occurrence of symbol c in s, 0 if none
IndexOf(s, c) ==
    IF \E i \in DOMAIN s : s[i] = c
    THEN CHOOSE i \in DOMAIN s : s[i] = c /\ \A j \in 1..(i - 1) : s[j] # c
    ELSE 0

LastIndexOf(s, c) ==
    IF \E i \in DOMAIN s : s[i] = c
    THEN CHOOSE i \in DOMAIN s : s[i] = c /\ \A j \in (i + 1)..Len(s) : s[j] # c
    ELSE 0

\* String.prototype.split(c): the pieces of s between occurrences of c
RECURSIVE split(_, _)
split(s, c) ==
    LET i == IndexOf(s, c)
    IN  IF i = 0 THEN <<s>>
        ELSE <<SubSeq(s, 1, i - 1)>> \o split(SubSeq(s, i + 1, Len(s)), c)

\* parts[n] || ''  (n is the 0-based JavaScript index)
PartOrEmpty(parts, n) == IF n + 1 \in DOMAIN parts THEN parts[n + 1] ELSE <<>>

\* s.replace('.gguf', ''): removes the first occurrence only
replaceFirst(s, c) ==
    LET i == IndexOf(s, c)
    IN  IF i = 0 THEN s ELSE SubSeq(s, 1, i - 1) \o SubSeq(s, i + 1, Len(s))

\* s.replace(/c$/, ''): removes c at the end only
replaceSuffix(s, c) == IF endsWith(s, c) THEN SubSeq(s, 1, Len(s) - 1) ELSE s

\* s.replace(/^c/, ''): removes c at the start only
replacePrefix(s, c) == IF Len(s) > 0 /\ s[1] = c THEN SubSeq(s, 2, Len(s)) ELSE s

\* s.replace(/-/g, ' ')
replaceAll(s, c, d) == [i \in DOMAIN s |-> IF s[i] = c THEN d ELSE s[i]]

\* path.basename on a POSIX host: trailing separators are ignored, then the
\* part after the last "/" is taken; a backslash is an ordinary character
RECURSIVE stripTrailingSep(_)
stripTrailingSep(p) ==
    IF endsWith(p, "/") THEN stripTrailingSep(SubSeq(p, 1, Len(p) - 1)) ELSE p

basename(p) ==
    LET q == stripTrailingSep(p)
    IN  SubSeq(q, LastIndexOf(q, "/") + 1, Len(q))

\* path.join(MODELS_DIR, f)
MODELS_DIR == <<"/", "data", "/", "models">>
pathJoin(dir, f) == dir \o <<"/">> \o f

----------------------------------------------------------------------------
(* Model catalog *)

MODEL_TIERS == <<
    [minRam |-> 32, name |-> "Mistral Small 22B",
     uri |-> <<"hf", ":", "bartowski", "/", "Mistral-Small-Instruct-2409", "-GGUF", ":", "Q4_K_M">>],
    [minRam |-> 10, name |-> "Ministral 8B",
     uri |-> <<"hf", ":", "bartowski", "/", "Ministral-8B-Instruct-2410", "-GGUF", ":", "Q4_K_M">>],
    [minRam |-> 5, name |-> "Phi 3.5 Mini",
     uri |-> <<"hf", ":", "bartowski", "/", "Phi-3.5-mini-instruct", "-GGUF", ":", "Q4_K_M">>],
    [minRam |-> 0, name |-> "Ministral 3B",
     uri |-> <<"hf", ":", "bartowski", "/", "mistralai_Ministral-3-3B-Instruct-2512", "-GGUF", ":", "Q4_K_M">>] >>

\* (uri.split(':')[1] || '').split('/')[1] || ''  lower-cased, -gguf stripped
tierSearch(uri) ==
    LET repoPath == PartOrEmpty(split(uri, ":"), 1)
        repoName == PartOrEmpty(split(repoPath, "/"), 1)
    IN  replaceSuffix(toLowerCase(repoName), "-gguf")

\* tierSearch of every uri of the table, computed once
TierSearches ==
    [u \in {MODEL_TIERS[i].uri : i \in DOMAIN MODEL_TIERS} |-> tierSearch(u)]

\* the name-matching heuristic: name.toLowerCase().includes(search)
tierMatches(uri, name) == includes(toLowerCase(name), TierSearches[uri])

pathToModelId(p) == replaceSuffix(basename(p), ".gguf")

\* Array.prototype.find: the first element satisfying P, as an optional value
SeqFind(s, P(_)) ==
    LET hits == {i \in DOMAIN s : P(s[i])}
    IN  IF hits = {} THEN Null
        ELSE Some(s[CHOOSE i \in hits : \A j \in hits : i <= j])

\* Array.prototype.filter
SeqFilter(s, P(_)) == SelectSeq(s, P)

\* Array.prototype.reverse
Reverse(s) == [i \in DOMAIN s |-> s[Len(s) + 1 - i]]


----------------------------------------------------------------------------
(* Files in the models directory *)

\* the file resolveModelFile(uri, MODELS_DIR) stores: its name carries the
\* repository name of the uri and the quantisation
DownloadedFile(uri) ==
    LET repoPath == PartOrEmpty(split(uri, ":"), 1)
        repoName == PartOrEmpty(split(repoPath, "/"), 1)
    IN  <<"hf_bartowski_">> \o replaceSuffix(repoName, "-GGUF") \o <<".Q4_K_M", ".gguf">>

FCustom == <<"Custom", ".gguf">>
FDual == <<"Mistral-Small-Instruct-2409", "-", "Phi-3.5-mini-instruct", ".gguf">>
FColon == <<"my", ":", "model", ".gguf">>
FTwoExt == <<"model", ".gguf", ".v2", ".gguf">>

\* every file name the model places in the directory, in directory order
AllFiles ==
    <<FCustom, FDual, DownloadedFile(MODEL_TIERS[2].uri), DownloadedFile(MODEL_TIERS[1].uri),
      DownloadedFile(MODEL_TIERS[3].uri), DownloadedFile(MODEL_TIERS[4].uri), FColon, FTwoExt>>

\* the files that the selection requests find in the directory
FileSet == {AllFiles[i] : i \in DOMAIN AllFiles} \ {FTwoExt}

\* at most this many files are in the directory initially
MaxInitialFiles == 2

\* fs.readdirSync(MODELS_DIR)
readdirSync(dsk) == SelectSeq(AllFiles, LAMBDA f : f \in dsk)

listLocalModels(dsk) ==
    LET files == SeqFilter(readdirSync(dsk), LAMBDA f : endsWith(f, ".gguf"))
    IN  [i \in DOMAIN files |->
            [name |-> replaceFirst(files[i], ".gguf"), path |-> pathJoin(MODELS_DIR, files[i])]]

\* path of the local model whose name is exactly id, or null
resolveModelId(dsk, id) ==
    LET match == SeqFind(listLocalModels(dsk), LAMBDA m : m.name = id)
    IN  IF match = Null THEN Null ELSE Some(match[1].path)

----------------------------------------------------------------------------
(* Model store: the settings row 'selected_model' *)

setSelectedModel(modelId) == Some(modelId)

clearSelectedModel == Null

IsPathLike(v) == (\E i \in DOMAIN v : v[i] = "/") \/ (\E i \in DOMAIN v : v[i] = "\\")

\* variant: every stored value is normalised as if it were a path
getSelectedModel_AlwaysNormalizes(row) ==
    IF row = Null \/ row[1] = <<>> THEN Null
    ELSE Some(pathToModelId(row[1]))

\* what getSelectedModel() returns when the row is `row`
getSelectedModel(row) ==
    IF row = Null \/ row[1] = <<>> THEN Null
    ELSE IF IsPathLike(row[1]) THEN Some(pathToModelId(row[1]))
    ELSE IF \E i \in DOMAIN row[1] : row[1][i] = ":" THEN Null
    ELSE Some(row[1])

\* the row after getSelectedModel() ran (migration on read)
getSelectedModelRow(row) ==
    IF row # Null /\ row[1] # <<>> /\ IsPathLike(row[1])
    THEN setSelectedModel(pathToModelId(row[1]))
    ELSE row

getSelectedModelPath(row, dsk) ==
    LET id == getSelectedModel(row)
    IN  IF id = Null THEN Null ELSE resolveModelId(dsk, id[1])

\* display name: the name of the first tier that matches id, else id cleaned up
getDisplayName(id) ==
    LET tier == SeqFind(MODEL_TIERS, LAMBDA t : tierMatches(t.uri, id))
    IN  IF tier # Null THEN <<tier[1].name>>
        ELSE replaceAll(replaceSuffix(replacePrefix(id, "hf_bartowski_"), ".Q4_K_M"), "-", " ")

\* the uri of the tier that id names: the uri itself, or a matching name
findTierUri(id) ==
    LET tier == SeqFind(MODEL_TIERS, LAMBDA t : t.uri = id \/ tierMatches(t.uri, id))
    IN  IF tier = Null THEN Null ELSE Some(tier[1].uri)

isModelAvailable(localModels, uri) ==
    \E i \in DOMAIN localModels : tierMatches(uri, localModels[i].name)

\* models.find(m => name matches the candidate): the first matching local model
findLocal(localModels, uri) == SeqFind(localModels, LAMBDA m : tierMatches(uri, m.name))

----------------------------------------------------------------------------
(* listAvailableModels *)

\* variant: the first loop does not look for the tier's file
tierEntries_NeverDownloaded(ram, localModels) ==
    LET fit == SeqFilter(MODEL_TIERS, LAMBDA t : ~(ram < t.minRam))
    IN  [i \in DOMAIN fit |->
            [id |-> fit[i].uri, name |-> <<fit[i].name>>, downloaded |-> FALSE,
             uri |-> Some(fit[i].uri)]]

\* first loop: one entry per tier that fits in RAM, in table order
tierEntries(ram, localModels) ==
    LET fit == SeqFilter(MODEL_TIERS, LAMBDA t : ~(ram < t.minRam))
    IN  [i \in DOMAIN fit |->
            LET match == findLocal(localModels, fit[i].uri)
            IN  IF match # Null
                THEN [id |-> match[1].name, name |-> <<fit[i].name>>, downloaded |-> TRUE,
                      uri |-> Some(fit[i].uri)]
                ELSE [id |-> fit[i].uri, name |-> <<fit[i].name>>, downloaded |-> FALSE,
                      uri |-> Some(fit[i].uri)]]

\* second loop: local models no tier entry covers, unless the first tier
\* matching the name is too large for this machine
otherEntries(ram, localModels, coveredIds) ==
    LET keep(m) ==
            LET tierMatch == SeqFind(MODEL_TIERS, LAMBDA t : tierMatches(t.uri, m.name))
            IN  /\ m.name \notin coveredIds
                /\ ~(tierMatch # Null /\ ram < tierMatch[1].minRam)
        rest == SeqFilter(localModels, keep)
    IN  [i \in DOMAIN rest |->
            [id |-> rest[i].name, name |-> getDisplayName(rest[i].name), downloaded |-> TRUE,
             uri |-> Null]]

listAvailableModels(ram, dsk) ==
    LET localModels == listLocalModels(dsk)
        first == tierEntries(ram, localModels)
        coveredIds == {first[i].id : i \in {j \in DOMAIN first : first[j].downloaded}}
    IN  first \o otherEntries(ram, localModels, coveredIds)


----------------------------------------------------------------------------
(* Event stream records: res.write(`data: ...`) *)

NoEvent ==
    [step |-> "", model |-> <<>>, ramGB |-> -1, speed |-> <<>>, fallback |-> FALSE,
     error |-> <<>>, selectedModel |-> <<>>]

RamEvent(ram) == [NoEvent EXCEPT !.step = "ram", !.ramGB = ram]
PullingEvent(name) == [NoEvent EXCEPT !.step = "pulling", !.model = <<name>>]
TestingEvent(name) == [NoEvent EXCEPT !.step = "testing", !.model = <<name>>]
ResultEvent(name, ram, speed, fallback) ==
    [NoEvent EXCEPT !.step = "result", !.model = <<name>>, !.ramGB = ram, !.speed = speed,
                    !.fallback = fallback]
DownloadingEvent(display) == [NoEvent EXCEPT !.step = "downloading", !.model = display]
DoneEvent(id, display) ==
    [NoEvent EXCEPT !.step = "done", !.selectedModel = id, !.model = display]
\* { error: err.message }
ErrorEvent(message) == [NoEvent EXCEPT !.step = "error", !.error = message]
\* the sentinel  data: [DONE]
Sentinel == [NoEvent EXCEPT !.step = "[DONE]"]

----------------------------------------------------------------------------
(* Environment: what a download and a speed test can do *)

\* the message of the error a failed download throws
DownloadErrors == {<<"fetch failed">>}

\* chatStream called the chunk callback `tokens` times and took `ms`
\* milliseconds; or it threw
SpeedRuns == {<<0, 0>>, <<0, 1000>>, <<5, 1000>>, <<5, 1001>>}

\* the throughput bar of autoSelect, tokens per second
MinTokensPerSecond == 5

\* speedTest: { tokensPerSecond, elapsed, tokens } as <<tokens, ms>>, where
\* tokens is at least 1 and tokensPerSecond = tokens / (ms / 1000)
speedTest(run) == <<IF run[1] = 0 THEN 1 ELSE run[1], run[2]>>

\* variant: the bar is exclusive
speedOk_Exclusive(result) == result[2] # 0 /\ result[1] * 1000 > MinTokensPerSecond * result[2]

\* result.tokensPerSecond >= 5; a division by zero yields Infinity
speedOk(result) == result[2] = 0 \/ result[1] * 1000 >= MinTokensPerSecond * result[2]

\* variant: the tiers that fit, in table order (largest first)
autoSelectCandidates_TableOrder(ram) ==
    LET fit == SeqFilter(MODEL_TIERS, LAMBDA t : ram >= t.minRam)
    IN  IF Len(fit) = 0 THEN <<MODEL_TIERS[Len(MODEL_TIERS)]>> ELSE fit

\* variant: every tier is a candidate, smallest first
autoSelectCandidates_AllTiers(ram) == Reverse(MODEL_TIERS)

\* candidates of autoSelect: the tiers that fit, smallest first; the last
\* tier of the table if none fits
autoSelectCandidates(ram) ==
    LET fit == Reverse(SeqFilter(MODEL_TIERS, LAMBDA t : ram >= t.minRam))
    IN  IF Len(fit) = 0 THEN <<MODEL_TIERS[Len(MODEL_TIERS)]>> ELSE fit

\* the candidate of the final download attempt
lastResortOf(cands) == cands[Len(cands)]

\* variant: the rescan visits the candidates smallest first
rescanOrder_SmallestFirst(cands) == cands

\* the order in which the local rescan visits the candidates
rescanOrder(cands) == Reverse(cands)

RamValues == {4, 8, 14, 32}

\* values the settings row may hold from earlier versions of the program
LegacySettings ==
    {Some(<<"mistral", ":", "7b">>),
     Some(pathJoin(MODELS_DIR, DownloadedFile(MODEL_TIERS[3].uri)))}

\* the settings row when the request arrives: absent, a legacy value, or the
\* id of a model file selected earlier (the file may since have been removed)
InitialSettings ==
    {Null} \cup LegacySettings \cup {Some(replaceFirst(f, ".gguf")) : f \in FileSet}

\* ids a client may submit to POST /select
SelectIds ==
    {replaceFirst(f, ".gguf") : f \in FileSet}
      \cup {MODEL_TIERS[i].uri : i \in DOMAIN MODEL_TIERS}
      \cup {<<"not-a-real-model">>, <<"phi-3.5-mini-instruct">>, <<>>}

----------------------------------------------------------------------------
(* Initial state *)

EngineIdle ==
    /\ loadedModel = 0
    /\ loadedModelPath = "null"
    /\ handles = <<>>
    /\ epc = <<>>
    /\ epath = <<>>
    /\ emodel = <<>>

ChatIdle ==
    /\ cpc = "idle"
    /\ cmodel = <<>>
    /\ cstream = <<>>
    /\ cended = FALSE
    /\ fullResponse = <<>>
    /\ saved = <<>>
    /\ upstreamN = 0
    /\ creply = "none"
    /\ cstart = Null
    /\ titleModel = <<>>
    /\ cancelled = FALSE
    /\ cancelAt = <<>>
    /\ writes = 0
    /\ lastWrite = Null

SelInit ==
    /\ disk \in {d \in SUBSET FileSet : Cardinality(d) <= MaxInitialFiles}
    /\ settings \in InitialSettings
    /\ ramGB \in RamValues
    /\ pc = "idle"
    /\ stream = <<>>
    /\ reply = "none"
    /\ replyBody = Null
    /\ ended = FALSE
    /\ models = <<>>
    /\ candidates = <<>>
    /\ ci = 0
    /\ modelPath = <<>>
    /\ reqId = <<>>
    /\ settingsBefore = settings
    /\ lastTest = <<>>
    /\ available = <<>>
    /\ gotModel = Null

\* no pair of runs is being made
RunIdle ==
    /\ outcome = <<>>
    /\ runNo = 0
    /\ firstSel = Null
    /\ firstDisk = {}

\* a JavaScript number: an integer, or NaN; NotCalled before the call returns
Number(n) == [kind |-> "number", value |-> n]
NaN == [kind |-> "NaN", value |-> 0]
NotCalled == [kind |-> "none", value |-> 0]

\* getSystemRamGB() is not being observed
ProbeIdle ==
    /\ platform = "linux"
    /\ cmdOut = Null
    /\ ramReturn = NotCalled

\* the client store as constructed (stores/chat.js:9-14), the page not mounted
UiIdle ==
    /\ modelStatus = [selectedModel |-> Null]
    /\ autoSelecting = FALSE
    /\ downloading = FALSE
    /\ streaming = FALSE
    /\ mpc = "start"
    /\ apc = "idle"
    /\ spc = "idle"

RestIdle == ProbeIdle /\ UiIdle /\ resolved = <<"none">>

Init == SelInit /\ EngineIdle /\ ChatIdle /\ RunIdle /\ RestIdle

----------------------------------------------------------------------------
(* POST /auto-select: the handler and autoSelect(onProgress) *)

\* variant: after an error record the stream is ended without the sentinel
Finish_ErrorEndsStream(records) ==
    /\ stream' = IF records[Len(records)].step = "error" THEN records
                  ELSE records \o <<[NoEvent EXCEPT !.step = "[DONE]"]>>
    /\ ended' = TRUE
    /\ pc' = "done"

\* the handler writes the sentinel and ends the stream
Finish(records) ==
    /\ stream' = records \o <<Sentinel>>
    /\ ended' = TRUE
    /\ pc' = "done"

\* writeHead; autoSelect detects RAM, lists the local models, builds candidates
AutoSelectStart ==
    /\ pc = "idle"
    /\ settingsBefore' = settings
    /\ reply' = "sse"
    /\ stream' = <<RamEvent(ramGB)>>
    /\ models' = listLocalModels(disk)
    /\ candidates' = autoSelectCandidates(ramGB)
    /\ ci' = 1
    /\ pc' = "as_loop"
    /\ UNCHANGED <<envVars, replyBody, ended, modelPath, reqId, lastTest, available,
                   gotModel, engVars, chatVars, runVars, otherVars>>

\* top of the candidate loop: start the download, or the test of the local file
AutoSelectCandidate ==
    /\ pc = "as_loop"
    /\ ci <= Len(candidates)
    /\ LET candidate == candidates[ci]
       IN  IF ~isModelAvailable(models, candidate.uri)
           THEN /\ stream' = Append(stream, PullingEvent(candidate.name))
                /\ pc' = "as_pull"
                /\ UNCHANGED modelPath
           ELSE /\ modelPath' = findLocal(models, candidate.uri)[1].path
                /\ stream' = Append(stream, TestingEvent(candidate.name))
                /\ pc' = "as_test"
    /\ lastTest' = <<>>
    /\ UNCHANGED <<envVars, reply, replyBody, ended, models, candidates, ci, reqId,
                   settingsBefore, available, gotModel, engVars, chatVars, runVars, otherVars>>

\* variant: the downloaded candidate is persisted before it is tested
AutoSelectPullOk_PersistEarly ==
    /\ pc = "as_pull"
    /\ LET candidate == candidates[ci]
           file == DownloadedFile(candidate.uri)
       IN  /\ disk' = disk \cup {file}
           /\ modelPath' = pathJoin(MODELS_DIR, file)
           /\ settings' = setSelectedModel(pathToModelId(pathJoin(MODELS_DIR, file)))
           /\ stream' = Append(stream, TestingEvent(candidate.name))
    /\ pc' = "as_test"
    /\ UNCHANGED <<ramGB, reply, replyBody, ended, models, candidates, ci, reqId,
                   settingsBefore, lastTest, available, gotModel, engVars, chatVars, runVars, otherVars>>

\* await pullModel(candidate.uri) returns the path of the stored file
AutoSelectPullOk ==
    /\ pc = "as_pull"
    /\ LET candidate == candidates[ci]
           file == DownloadedFile(candidate.uri)
       IN  /\ disk' = disk \cup {file}
           /\ modelPath' = pathJoin(MODELS_DIR, file)
           /\ stream' = Append(stream, TestingEvent(candidate.name))
    /\ pc' = "as_test"
    /\ UNCHANGED <<settings, ramGB, reply, replyBody, ended, models, candidates, ci, reqId,
                   settingsBefore, lastTest, available, gotModel, engVars, chatVars, runVars, otherVars>>

\* variant: a failed download is retried for the same candidate
AutoSelectPullFail_RetriesCandidate ==
    /\ pc = "as_pull"
    /\ pc' = "as_loop"
    /\ UNCHANGED <<envVars, stream, reply, replyBody, ended, models, candidates, ci, modelPath,
                   reqId, settingsBefore, lastTest, available, gotModel, engVars, chatVars, runVars, otherVars>>

\* await pullModel(candidate.uri) throws: catch, continue
AutoSelectPullFail ==
    /\ pc = "as_pull"
    /\ ci' = ci + 1
    /\ pc' = "as_loop"
    /\ UNCHANGED <<envVars, stream, reply, replyBody, ended, models, candidates, modelPath,
                   reqId, settingsBefore, lastTest, available, gotModel, engVars, chatVars, runVars, otherVars>>

\* variant: a fast candidate is committed only while nothing is selected
AutoSelectTestDone_SkipsIfSelected ==
    /\ pc = "as_test"
    /\ \E run \in SpeedRuns :
        LET result == speedTest(run)
            candidate == candidates[ci]
        IN  /\ lastTest' = result
            /\ IF speedOk(result) /\ settings = Null
               THEN /\ settings' = setSelectedModel(pathToModelId(modelPath))
                    /\ Finish(Append(stream,
                          ResultEvent(candidate.name, ramGB, result, candidate # candidates[1])))
                    /\ UNCHANGED ci
               ELSE /\ ci' = ci + 1
                    /\ pc' = "as_loop"
                    /\ UNCHANGED <<settings, stream, ended>>
    /\ UNCHANGED <<disk, ramGB, reply, replyBody, models, candidates, modelPath, reqId,
                   settingsBefore, available, gotModel, engVars, chatVars, runVars, otherVars>>

\* await speedTest(modelPath) returns: commit if fast enough, else next candidate
AutoSelectTestDone ==
    /\ pc = "as_test"
    /\ \E run \in SpeedRuns :
        LET result == speedTest(run)
            candidate == candidates[ci]
        IN  /\ lastTest' = result
            /\ IF speedOk(result)
               THEN /\ settings' = setSelectedModel(pathToModelId(modelPath))
                    /\ Finish(Append(stream,
                          ResultEvent(candidate.name, ramGB, result, candidate # candidates[1])))
                    /\ UNCHANGED ci
               ELSE /\ ci' = ci + 1
                    /\ pc' = "as_loop"
                    /\ UNCHANGED <<settings, stream, ended>>
    /\ UNCHANGED <<disk, ramGB, reply, replyBody, models, candidates, modelPath, reqId,
                   settingsBefore, available, gotModel, engVars, chatVars, runVars, otherVars>>

\* await speedTest(modelPath) throws: catch, continue
AutoSelectTestThrow ==
    /\ pc = "as_test"
    /\ ci' = ci + 1
    /\ pc' = "as_loop"
    /\ lastTest' = <<>>
    /\ UNCHANGED <<envVars, stream, reply, replyBody, ended, models, candidates, modelPath,
                   reqId, settingsBefore, available, gotModel, engVars, chatVars, runVars, otherVars>>

\* variant: the rescan marks fallback only when it selects another candidate
\* than the first one tried
AutoSelectRescan_FallbackIfNotFirst ==
    /\ pc = "as_loop"
    /\ ci > Len(candidates)
    /\ LET local == SeqFind(rescanOrder(candidates),
                            LAMBDA c : isModelAvailable(models, c.uri))
       IN  IF local # Null
           THEN /\ settings' =
                     setSelectedModel(pathToModelId(findLocal(models, local[1].uri)[1].path))
                /\ Finish(Append(stream,
                      ResultEvent(local[1].name, ramGB, <<>>, local[1] # candidates[1])))
           ELSE /\ stream' = Append(stream, PullingEvent(lastResortOf(candidates).name))
                /\ pc' = "as_last"
                /\ UNCHANGED <<settings, ended>>
    /\ lastTest' = <<>>
    /\ UNCHANGED <<disk, ramGB, reply, replyBody, models, candidates, ci, modelPath, reqId,
                   settingsBefore, available, gotModel, engVars, chatVars, runVars, otherVars>>

\* variant: the rescan announces its selection without persisting it
AutoSelectRescan_AnnouncesOnly ==
    /\ pc = "as_loop"
    /\ ci > Len(candidates)
    /\ LET local == SeqFind(rescanOrder(candidates),
                            LAMBDA c : isModelAvailable(models, c.uri))
       IN  IF local # Null
           THEN /\ Finish(Append(stream, ResultEvent(local[1].name, ramGB, <<>>, TRUE)))
                /\ UNCHANGED settings
           ELSE /\ stream' = Append(stream, PullingEvent(lastResortOf(candidates).name))
                /\ pc' = "as_last"
                /\ UNCHANGED <<settings, ended>>
    /\ lastTest' = <<>>
    /\ UNCHANGED <<disk, ramGB, reply, replyBody, models, candidates, ci, modelPath, reqId,
                   settingsBefore, available, gotModel, engVars, chatVars, runVars, otherVars>>

\* after the loop: take the first locally available candidate of the rescan
\* order without a test; if there is none, start the last-resort download
AutoSelectRescan ==
    /\ pc = "as_loop"
    /\ ci > Len(candidates)
    /\ LET local == SeqFind(rescanOrder(candidates),
                            LAMBDA c : isModelAvailable(models, c.uri))
       IN  IF local # Null
           THEN /\ settings' =
                     setSelectedModel(pathToModelId(findLocal(models, local[1].uri)[1].path))
                /\ Finish(Append(stream, ResultEvent(local[1].name, ramGB, <<>>, TRUE)))
           ELSE /\ stream' = Append(stream, PullingEvent(lastResortOf(candidates).name))
                /\ pc' = "as_last"
                /\ UNCHANGED <<settings, ended>>
    /\ lastTest' = <<>>
    /\ UNCHANGED <<disk, ramGB, reply, replyBody, models, candidates, ci, modelPath, reqId,
                   settingsBefore, available, gotModel, engVars, chatVars, runVars, otherVars>>

\* the last-resort download succeeds: select it without a test
AutoSelectLastOk ==
    /\ pc = "as_last"
    /\ LET lastResort == lastResortOf(candidates)
           file == DownloadedFile(lastResort.uri)
       IN  /\ disk' = disk \cup {file}
           /\ modelPath' = pathJoin(MODELS_DIR, file)
           /\ settings' = setSelectedModel(pathToModelId(pathJoin(MODELS_DIR, file)))
           /\ Finish(Append(stream, ResultEvent(lastResort.name, ramGB, <<>>, TRUE)))
    /\ UNCHANGED <<ramGB, reply, replyBody, models, candidates, ci, reqId, settingsBefore,
                   lastTest, available, gotModel, engVars, chatVars, runVars, otherVars>>

\* the last-resort download throws: autoSelect throws, the handler writes the error
AutoSelectLastFail ==
    /\ pc = "as_last"
    /\ \E cause \in DownloadErrors :
        Finish(Append(stream,
            ErrorEvent(<<"Could not download any model. Last tried: ",
                         lastResortOf(candidates).name, ". Error: ">> \o cause)))
    /\ UNCHANGED <<envVars, reply, replyBody, models, candidates, ci, modelPath, reqId,
                   settingsBefore, lastTest, available, gotModel, engVars, chatVars, runVars, otherVars>>

----------------------------------------------------------------------------
(* POST /select, GET /status, DELETE /selected *)

\* the body fails the schema (model missing or empty): 400, the handler never runs
SelectInvalid ==
    /\ pc = "idle"
    /\ settingsBefore' = settings
    /\ reply' = "400"
    /\ pc' = "done"
    /\ UNCHANGED <<envVars, stream, replyBody, ended, models, candidates, ci, modelPath, reqId,
                   lastTest, available, gotModel, engVars, chatVars, runVars, otherVars>>

\* the id is the name of a local model: persist it, answer with JSON
SelectLocal ==
    /\ pc = "idle"
    /\ settingsBefore' = settings
    /\ \E id \in SelectIds \ {<<>>} :
        /\ resolveModelId(disk, id) # Null
        /\ reqId' = id
        /\ settings' = setSelectedModel(id)
        /\ replyBody' = Some([selectedModel |-> id, selectedModelName |-> getDisplayName(id)])
    /\ reply' = "json"
    /\ pc' = "done"
    /\ UNCHANGED <<disk, ramGB, stream, ended, models, candidates, ci, modelPath,
                   lastTest, available, gotModel, engVars, chatVars, runVars, otherVars>>

\* variant: the unknown id is persisted before the 404 is sent
SelectNotFound_Persists ==
    /\ pc = "idle"
    /\ settingsBefore' = settings
    /\ \E id \in SelectIds \ {<<>>} :
        /\ resolveModelId(disk, id) = Null
        /\ findTierUri(id) = Null
        /\ reqId' = id
        /\ settings' = setSelectedModel(id)
    /\ reply' = "404"
    /\ pc' = "done"
    /\ UNCHANGED <<disk, ramGB, stream, replyBody, ended, models, candidates, ci, modelPath,
                   lastTest, available, gotModel, engVars, chatVars, runVars, otherVars>>

\* the id is neither a local model nor a tier: 404
SelectNotFound ==
    /\ pc = "idle"
    /\ settingsBefore' = settings
    /\ \E id \in SelectIds \ {<<>>} :
        /\ resolveModelId(disk, id) = Null
        /\ findTierUri(id) = Null
        /\ reqId' = id
    /\ reply' = "404"
    /\ pc' = "done"
    /\ UNCHANGED <<envVars, stream, replyBody, ended, models, candidates, ci, modelPath,
                   lastTest, available, gotModel, engVars, chatVars, runVars, otherVars>>

\* the id names a tier that is not local: open the stream, start the download
SelectDownloadStart ==
    /\ pc = "idle"
    /\ settingsBefore' = settings
    /\ \E id \in SelectIds \ {<<>>} :
        /\ resolveModelId(disk, id) = Null
        /\ findTierUri(id) # Null
        /\ reqId' = id
        /\ stream' = <<DownloadingEvent(getDisplayName(id))>>
    /\ reply' = "sse"
    /\ pc' = "sel_download"
    /\ UNCHANGED <<envVars, replyBody, ended, models, candidates, ci, modelPath,
                   lastTest, available, gotModel, engVars, chatVars, runVars, otherVars>>

\* variant: the submitted id is persisted, not the id of the downloaded file
SelectDownloadOk_PersistsRequestId ==
    /\ pc = "sel_download"
    /\ LET file == DownloadedFile(findTierUri(reqId)[1])
           newId == pathToModelId(pathJoin(MODELS_DIR, file))
       IN  /\ disk' = disk \cup {file}
           /\ modelPath' = pathJoin(MODELS_DIR, file)
           /\ settings' = setSelectedModel(reqId)
           /\ Finish(Append(stream, DoneEvent(newId, getDisplayName(newId))))
    /\ UNCHANGED <<ramGB, reply, replyBody, models, candidates, ci, reqId, settingsBefore,
                   lastTest, available, gotModel, engVars, chatVars, runVars, otherVars>>

\* await downloadModel(uri) returns: persist the id of the file, write done
SelectDownloadOk ==
    /\ pc = "sel_download"
    /\ LET file == DownloadedFile(findTierUri(reqId)[1])
           newId == pathToModelId(pathJoin(MODELS_DIR, file))
       IN  /\ disk' = disk \cup {file}
           /\ modelPath' = pathJoin(MODELS_DIR, file)
           /\ settings' = setSelectedModel(newId)
           /\ Finish(Append(stream, DoneEvent(newId, getDisplayName(newId))))
    /\ UNCHANGED <<ramGB, reply, replyBody, models, candidates, ci, reqId, settingsBefore,
                   lastTest, available, gotModel, engVars, chatVars, runVars, otherVars>>

\* await downloadModel(uri) throws: write the error
SelectDownloadFail ==
    /\ pc = "sel_download"
    /\ \E cause \in DownloadErrors : Finish(Append(stream, ErrorEvent(cause)))
    /\ UNCHANGED <<envVars, reply, replyBody, models, candidates, ci, modelPath, reqId,
                   settingsBefore, lastTest, available, gotModel, engVars, chatVars, runVars, otherVars>>

\* GET /status: getSelectedModel() (which may rewrite the row) and the menu.
\* It leaves the record of the last request in place.
GetStatus ==
    /\ pc \in {"idle", "done"}
    /\ gotModel' = getSelectedModel(settings)
    /\ settings' = getSelectedModelRow(settings)
    /\ available' = listAvailableModels(ramGB, disk)
    /\ UNCHANGED <<disk, ramGB, pc, stream, reply, replyBody, ended, models, candidates, ci,
                   modelPath, reqId, settingsBefore, lastTest, engVars, chatVars, runVars, otherVars>>

\* DELETE /selected
DeleteSelected ==
    /\ pc = "idle"
    /\ settingsBefore' = settings
    /\ reply' = "json"
    /\ settings' = clearSelectedModel
    /\ pc' = "done"
    /\ UNCHANGED <<disk, ramGB, stream, replyBody, ended, models, candidates, ci, modelPath,
                   reqId, lastTest, available, gotModel, engVars, chatVars, runVars, otherVars>>

Next ==
    \/ AutoSelectStart
    \/ AutoSelectCandidate
    \/ AutoSelectPullOk
    \/ AutoSelectPullFail
    \/ AutoSelectTestDone
    \/ AutoSelectTestThrow
    \/ AutoSelectRescan
    \/ AutoSelectLastOk
    \/ AutoSelectLastFail
    \/ SelectInvalid
    \/ SelectLocal
    \/ SelectNotFound
    \/ SelectDownloadStart
    \/ SelectDownloadOk
    \/ SelectDownloadFail
    \/ GetStatus
    \/ DeleteSelected

Spec == Init /\ [][Next]_vars


----------------------------------------------------------------------------
(* Inference engine: loadModel and chatStream of llm.js, called concurrently *)

\* concurrent callers of chatStream
NumCallers == 2
Callers == 1..NumCallers

\* at most this many model objects are created in a behaviour
MaxLoads == 3

EnginePaths == {"A.gguf", "B.gguf"}

InFlight == {c \in Callers : epc[c] # "idle"}

\* no model is loaded and no caller is in chatStream
EngineCold ==
    /\ loadedModel = 0
    /\ loadedModelPath = "null"
    /\ handles = <<>>
    /\ epc = [c \in Callers |-> "idle"]
    /\ epath = [c \in Callers |-> "null"]
    /\ emodel = [c \in Callers |-> 0]

\* no selection request is in flight
ReqQuiet ==
    /\ pc = "idle"
    /\ stream = <<>>
    /\ reply = "none"
    /\ replyBody = Null
    /\ ended = FALSE
    /\ models = <<>>
    /\ candidates = <<>>
    /\ ci = 0
    /\ modelPath = <<>>
    /\ reqId = <<>>
    /\ settingsBefore = Null
    /\ lastTest = <<>>
    /\ available = <<>>
    /\ gotModel = Null

SelQuiet ==
    /\ disk = {}
    /\ ramGB = 8
    /\ ReqQuiet

SelIdle ==
    /\ SelQuiet
    /\ settings = Null

\* chatStream(modelPath, ...) is called and runs loadModel up to its first
\* await: the cached model is returned, or the cached model of another path
\* is told to dispose, or the engine instance is fetched
ChatStreamCall(c) ==
    /\ epc[c] = "idle"
    /\ Len(handles) + Cardinality(InFlight) < MaxLoads
    /\ \E p \in EnginePaths :
        /\ epath' = [epath EXCEPT ![c] = p]
        /\ IF loadedModelPath = p /\ loadedModel # 0
           THEN /\ emodel' = [emodel EXCEPT ![c] = loadedModel]
                /\ epc' = [epc EXCEPT ![c] = "loaded"]
                /\ UNCHANGED handles
           ELSE IF loadedModel # 0
           THEN /\ handles' = [handles EXCEPT ![loadedModel].disposes = @ + 1,
                                              ![loadedModel].state = "disposed"]
                /\ epc' = [epc EXCEPT ![c] = "dispose"]
                /\ UNCHANGED emodel
           ELSE /\ epc' = [epc EXCEPT ![c] = "getLlama"]
                /\ UNCHANGED <<handles, emodel>>
    /\ UNCHANGED <<loadedModel, loadedModelPath, selVars, chatVars, runVars, otherVars>>

\* await loadedModel.dispose() returns; getLlamaInstance() is awaited next
DisposeReturn(c) ==
    /\ epc[c] = "dispose"
    /\ epc' = [epc EXCEPT ![c] = "getLlama"]
    /\ UNCHANGED <<loadedModel, loadedModelPath, handles, epath, emodel, selVars, chatVars, runVars, otherVars>>

\* await getLlamaInstance() returns; llama.loadModel({ modelPath }) starts
GetLlamaReturn(c) ==
    /\ epc[c] = "getLlama"
    /\ handles' = Append(handles, [path |-> epath[c], state |-> "loading", disposes |-> 0])
    /\ emodel' = [emodel EXCEPT ![c] = Len(handles) + 1]
    /\ epc' = [epc EXCEPT ![c] = "load"]
    /\ UNCHANGED <<loadedModel, loadedModelPath, epath, selVars, chatVars, runVars, otherVars>>

\* await llama.loadModel(...) returns: the model is cached and returned
LoadReturn(c) ==
    /\ epc[c] = "load"
    /\ handles' = [handles EXCEPT ![emodel[c]].state = "resident"]
    /\ loadedModel' = emodel[c]
    /\ loadedModelPath' = epath[c]
    /\ epc' = [epc EXCEPT ![c] = "loaded"]
    /\ UNCHANGED <<epath, emodel, selVars, chatVars, runVars, otherVars>>

\* await llama.loadModel(...) throws: loadModel and chatStream reject
LoadThrow(c) ==
    /\ epc[c] = "load"
    /\ handles' = [handles EXCEPT ![emodel[c]].state = "failed"]
    /\ emodel' = [emodel EXCEPT ![c] = 0]
    /\ epc' = [epc EXCEPT ![c] = "idle"]
    /\ UNCHANGED <<loadedModel, loadedModelPath, epath, selVars, chatVars, runVars, otherVars>>

\* await loadModel(...) returned a model that was disposed meanwhile (or
\* before): model.createContext(...) rejects and chatStream rejects
CreateContextThrow(c) ==
    /\ epc[c] = "loaded"
    /\ handles[emodel[c]].state = "disposed"
    /\ epc' = [epc EXCEPT ![c] = "idle"]
    /\ emodel' = [emodel EXCEPT ![c] = 0]
    /\ UNCHANGED <<loadedModel, loadedModelPath, handles, epath, selVars, chatVars, runVars, otherVars>>

\* await loadModel(...) returned; model.createContext(...) returns a context
\* of the live model and session.prompt(...) is awaited
CreateContext(c) ==
    /\ epc[c] = "loaded"
    /\ handles[emodel[c]].state # "disposed"
    /\ epc' = [epc EXCEPT ![c] = "prompt"]
    /\ UNCHANGED <<loadedModel, loadedModelPath, handles, epath, emodel, selVars, chatVars, runVars, otherVars>>

\* await session.prompt(...) settles; finally the context is disposed
PromptReturn(c) ==
    /\ epc[c] = "prompt"
    /\ epc' = [epc EXCEPT ![c] = "idle"]
    /\ emodel' = [emodel EXCEPT ![c] = 0]
    /\ UNCHANGED <<loadedModel, loadedModelPath, handles, epath, selVars, chatVars, runVars, otherVars>>

EngineNext ==
    \/ \E c \in Callers : ChatStreamCall(c)
    \/ \E c \in Callers : DisposeReturn(c)
    \/ \E c \in Callers : GetLlamaReturn(c)
    \/ \E c \in Callers : LoadReturn(c)
    \/ \E c \in Callers : LoadThrow(c)
    \/ \E c \in Callers : CreateContextThrow(c)
    \/ \E c \in Callers : CreateContext(c)
    \/ \E c \in Callers : PromptReturn(c)

EngineInit == EngineCold /\ SelIdle /\ ChatIdle /\ RunIdle /\ RestIdle

SpecEngine == EngineInit /\ [][EngineNext]_vars

----------------------------------------------------------------------------
(* Chat send: POST /:id/messages of routes/chats.js *)

\* at most this many lines arrive from upstream
MaxUpstreamLines == 3

\* at most this many settings writes by other requests during one send
MaxWrites == 2

\* the model name used when nothing is selected
DefaultChatModel == <<"mistral-small-3.1">>

\* a line of the upstream response: JSON with message.content and done, or
\* a line that does not parse
Contents == {"", "Hi"}
UpstreamLines ==
    {[json |-> TRUE, content |-> t, done |-> d] : t \in Contents, d \in BOOLEAN}
      \cup {[json |-> FALSE, content |-> "", done |-> FALSE]}

TokenRecord(t) == [step |-> "token", text |-> t]
ChatErrorRecord(m) == [step |-> "error", text |-> m]
ChatSentinel == [step |-> "[DONE]", text |-> ""]

UpstreamErrors == {"Connection refused"}

\* the settings row and the models directory when a chat send arrives
ChatSettings ==
    {Null} \cup LegacySettings
      \cup {Some(replaceFirst(f, ".gguf")) : f \in {FCustom, DownloadedFile(MODEL_TIERS[3].uri)}}
ChatDisks == {{}, {DownloadedFile(MODEL_TIERS[3].uri)}}

\* rows that a Manual Select, an Auto-Select or a clear by another request leaves
ConcurrentRows == {clearSelectedModel, setSelectedModel(replaceFirst(FCustom, ".gguf"))}

ChatInit ==
    /\ disk \in ChatDisks
    /\ ramGB = 8
    /\ ReqQuiet
    /\ settings \in ChatSettings
    /\ EngineIdle
    /\ ChatIdle
    /\ RunIdle
    /\ RestIdle

\* const model = getSelectedModel() || 'mistral-small-3.1'
chatModelOf(row) ==
    IF getSelectedModel(row) = Null THEN DefaultChatModel ELSE getSelectedModel(row)[1]

\* the handler reads the selected model, writes the head, calls ollamaStream
ChatSendStart ==
    /\ cpc = "idle"
    /\ cstart' = settings
    /\ cmodel' = chatModelOf(settings)
    /\ settings' = getSelectedModelRow(settings)
    /\ creply' = "sse"
    /\ cpc' = "fetch"
    /\ UNCHANGED <<cstream, cended, fullResponse, saved, upstreamN, titleModel, cancelled,
                   cancelAt, writes, lastWrite, disk, ramGB, reqVars, engVars, runVars, otherVars>>

\* await ollamaStream(...) returns the response
ChatFetchOk ==
    /\ cpc = "fetch"
    /\ cpc' = "read"
    /\ UNCHANGED <<cmodel, cstream, cended, fullResponse, saved, upstreamN, creply, cstart,
                   titleModel, cancelled, cancelAt, writes, lastWrite, selVars, engVars,
                   runVars, otherVars>>

\* the catch block: error record, sentinel, end
ChatCatch(message) ==
    /\ cstream' = cstream \o <<ChatErrorRecord(message), ChatSentinel>>
    /\ cended' = TRUE
    /\ cpc' = "done"

\* await ollamaStream(...) throws (unreachable, or a non-2xx answer)
ChatFetchThrow ==
    /\ cpc = "fetch"
    /\ \E m \in UpstreamErrors : ChatCatch(m)
    /\ UNCHANGED <<cmodel, fullResponse, saved, upstreamN, creply, cstart, titleModel,
                   cancelled, cancelAt, writes, lastWrite, selVars, engVars, runVars, otherVars>>

\* variant: the title is generated with the model selected at that moment
ChatReadLine_TitleRereadsSetting ==
    /\ cpc = "read"
    /\ upstreamN < MaxUpstreamLines
    /\ \A i \in DOMAIN cstream : cstream[i].step # "[DONE]"
    /\ \E line \in UpstreamLines, firstReply \in BOOLEAN :
        LET text == IF line.json /\ line.content # "" THEN <<line.content>> ELSE <<>>
            tokens == [i \in DOMAIN text |-> TokenRecord(text[i])]
        IN  /\ fullResponse' = fullResponse \o text
            /\ IF line.json /\ line.done
               THEN /\ saved' = Append(saved, fullResponse \o text)
                    /\ titleModel' = IF firstReply THEN Some(chatModelOf(settings)) ELSE titleModel
                    /\ cstream' = cstream \o tokens \o <<ChatSentinel>>
               ELSE /\ cstream' = cstream \o tokens
                    /\ firstReply = FALSE
                    /\ UNCHANGED <<saved, titleModel>>
    /\ upstreamN' = upstreamN + 1
    /\ UNCHANGED <<cpc, cmodel, cended, creply, cstart, cancelled, cancelAt, writes,
                   lastWrite, selVars, engVars, runVars, otherVars>>

\* reader.read() returns a line: a token record is written for its content;
\* on done the reply is saved, the title is generated with the model of this
\* send if this is the first reply of a new chat, and the sentinel is
\* written; a line that does not parse is skipped.  Upstream sends nothing
\* after its done line.
ChatReadLine ==
    /\ cpc = "read"
    /\ upstreamN < MaxUpstreamLines
    /\ \A i \in DOMAIN cstream : cstream[i].step # "[DONE]"
    /\ \E line \in UpstreamLines, firstReply \in BOOLEAN :
        LET text == IF line.json /\ line.content # "" THEN <<line.content>> ELSE <<>>
            tokens == [i \in DOMAIN text |-> TokenRecord(text[i])]
        IN  /\ fullResponse' = fullResponse \o text
            /\ IF line.json /\ line.done
               THEN /\ saved' = Append(saved, fullResponse \o text)
                    /\ titleModel' = IF firstReply THEN Some(cmodel) ELSE titleModel
                    /\ cstream' = cstream \o tokens \o <<ChatSentinel>>
               ELSE /\ cstream' = cstream \o tokens
                    /\ firstReply = FALSE
                    /\ UNCHANGED <<saved, titleModel>>
    /\ upstreamN' = upstreamN + 1
    /\ UNCHANGED <<cpc, cmodel, cended, creply, cstart, cancelled, cancelAt, writes,
                   lastWrite, selVars, engVars, runVars, otherVars>>

\* reader.read() reports the end of the upstream body: break, res.end()
ChatReadEnd ==
    /\ cpc = "read"
    /\ cended' = TRUE
    /\ cpc' = "done"
    /\ UNCHANGED <<cmodel, cstream, fullResponse, saved, upstreamN, creply, cstart,
                   titleModel, cancelled, cancelAt, writes, lastWrite, selVars, engVars,
                   runVars, otherVars>>

\* reader.read() throws
ChatReadThrow ==
    /\ cpc = "read"
    /\ \E m \in UpstreamErrors : ChatCatch(m)
    /\ UNCHANGED <<cmodel, fullResponse, saved, upstreamN, creply, cstart, titleModel,
                   cancelled, cancelAt, writes, lastWrite, selVars, engVars, runVars, otherVars>>

\* the client aborts its request (stop action or disconnect); the handler
\* registers no listener for it and passes no signal upstream
ChatCancel ==
    /\ cpc \in {"fetch", "read"}
    /\ ~cancelled
    /\ cancelled' = TRUE
    /\ cancelAt' = <<Len(cstream), upstreamN>>
    /\ UNCHANGED <<cpc, cmodel, cstream, cended, fullResponse, saved, upstreamN, creply,
                   cstart, titleModel, writes, lastWrite, selVars, engVars, runVars, otherVars>>

\* another request writes the settings row while the send is in flight:
\* setSelectedModel (Manual Select, Auto-Select) or clearSelectedModel
ChatConcurrentWrite ==
    /\ cpc \in {"fetch", "read"}
    /\ writes < MaxWrites
    /\ \E row \in ConcurrentRows :
        /\ settings' = row
        /\ lastWrite' = row
    /\ writes' = writes + 1
    /\ UNCHANGED <<cpc, cmodel, cstream, cended, fullResponse, saved, upstreamN, creply,
                   cstart, titleModel, cancelled, cancelAt, disk, ramGB, reqVars, engVars,
                   runVars, otherVars>>

ChatNext ==
    \/ ChatSendStart
    \/ ChatFetchOk
    \/ ChatFetchThrow
    \/ ChatReadLine
    \/ ChatReadEnd
    \/ ChatReadThrow
    \/ ChatCancel
    \/ ChatConcurrentWrite

SpecChat == ChatInit /\ [][ChatNext]_vars

----------------------------------------------------------------------------
(* Model store on its own: getSelectedModel, setSelectedModel, clearSelectedModel
   over arbitrary stored values *)

\* stored values and ids are strings of at most this many symbols
MaxValueLen == 3

StoreAlphabet == {"/", "\\", ":", "a", ".gguf"}

StoreValues == UNION {[1..n -> StoreAlphabet] : n \in 0..MaxValueLen}

StoreInit ==
    /\ SelQuiet
    /\ settings \in {Null} \cup {Some(v) : v \in StoreValues}
    /\ EngineIdle
    /\ ChatIdle
    /\ RunIdle
    /\ RestIdle

\* getSelectedModel(): the value returned and the row it leaves
StoreGet ==
    /\ pc \in {"idle", "set", "cleared"}
    /\ settingsBefore' = settings
    /\ gotModel' = getSelectedModel(settings)
    /\ settings' = getSelectedModelRow(settings)
    /\ pc' = IF pc = "set" THEN "set_got" ELSE "got"
    /\ UNCHANGED <<disk, ramGB, stream, reply, replyBody, ended, models, candidates, ci,
                   modelPath, reqId, lastTest, available, engVars, chatVars, runVars, otherVars>>

\* setSelectedModel(modelId)
StoreSet ==
    /\ \E modelId \in StoreValues :
        /\ settings' = setSelectedModel(modelId)
        /\ reqId' = modelId
    /\ settingsBefore' = Null
    /\ gotModel' = Null
    /\ pc' = "set"
    /\ UNCHANGED <<disk, ramGB, stream, reply, replyBody, ended, models, candidates, ci,
                   modelPath, lastTest, available, engVars, chatVars, runVars, otherVars>>

\* clearSelectedModel()
StoreClear ==
    /\ settings' = clearSelectedModel
    /\ reqId' = <<>>
    /\ settingsBefore' = Null
    /\ gotModel' = Null
    /\ pc' = "cleared"
    /\ UNCHANGED <<disk, ramGB, stream, reply, replyBody, ended, models, candidates, ci,
                   modelPath, lastTest, available, engVars, chatVars, runVars, otherVars>>

StoreNext ==
    \/ StoreGet
    \/ StoreSet
    \/ StoreClear

SpecStore == StoreInit /\ [][StoreNext]_vars

----------------------------------------------------------------------------
(* Reading an event stream *)

HasStep(records, step) == \E i \in DOMAIN records : records[i].step = step
CountStep(records, step) == Cardinality({i \in DOMAIN records : records[i].step = step})
TheEvent(records, step) == records[CHOOSE i \in DOMAIN records : records[i].step = step]

\* position of the first pulling/testing event that names the tier, 0 if none
FirstAttempt(records, name) ==
    LET hits == {i \in DOMAIN records :
                    /\ records[i].step \in {"pulling", "testing"}
                    /\ records[i].model = <<name>>}
    IN  IF hits = {} THEN 0 ELSE CHOOSE i \in hits : \A j \in hits : i <= j

\* the stream in hand belongs to an Auto-Select run
AutoSelectRun == reply = "sse" /\ Len(stream) > 0 /\ stream[1].step = "ram"

\* the stream in hand belongs to the download path of Manual Select
SelectDownloadRun == reply = "sse" /\ Len(stream) > 0 /\ stream[1].step = "downloading"

Tiers == {MODEL_TIERS[i] : i \in DOMAIN MODEL_TIERS}
QualifyingTiers == {t \in Tiers : t.minRam <= ramGB}
CandidateSet == {candidates[i] : i \in DOMAIN candidates}
LocalCandidates == {c \in CandidateSet : isModelAvailable(models, c.uri)}

\* GET /status ran after the request (listAvailableModels is never empty)
StatusQueried == available # <<>>

\* the run ended with a result event that carries a speed measurement
SpeedWin == AutoSelectRun /\ HasStep(stream, "result") /\ TheEvent(stream, "result").speed # <<>>

----------------------------------------------------------------------------------------------------------------------------------------------
(* RAM probe: getSystemRamGB of model-selector.js *)

\* at most this many tokens are in the output of the command
MaxOutputLen == 3

Platforms == {"darwin", "linux", "win32"}

\* the output of the command is a sequence of tokens: white space, words
\* without digits, and runs of digits.  The number a run of digits denotes
\* is counted in units of 1024 bytes (hw.memsize is in bytes and a multiple
\* of 1024, MemTotal is in kB).
WhiteSpace == {" ", "\n"}
Words == {"MemTotal:", "kB"}
DigitValue == ("0" :> 0) @@ ("500000" :> 500000) @@ ("8000000" :> 8000000)
                @@ ("16384000" :> 16384000)
DigitRuns == DOMAIN DigitValue
IsDigits(tok) == tok \in DigitRuns

CommandOutputs ==
    {o \in UNION {[1..n -> WhiteSpace \cup Words \cup DigitRuns] : n \in 0..MaxOutputLen} :
        \A i \in 1..(Len(o) - 1) : ~(IsDigits(o[i]) /\ IsDigits(o[i + 1]))}

\* parseInt(s): white space is skipped, then the leading run of digits is
\* the value; NaN if there is none
parseInt(s) ==
    LET rest == {i \in DOMAIN s : s[i] \notin WhiteSpace}
        first == CHOOSE i \in rest : \A j \in rest : i <= j
    IN  IF rest = {} THEN NaN
        ELSE IF IsDigits(s[first]) THEN Number(DigitValue[s[first]])
        ELSE NaN

\* s.match(/(\d+)/): the first run of digits anywhere, null if there is none
matchDigits(s) ==
    LET runs == {i \in DOMAIN s : IsDigits(s[i])}
    IN  IF runs = {} THEN Null ELSE Some(<<s[CHOOSE i \in runs : \A j \in runs : i <= j]>>)

\* Math.round(x / 1024 ** 2) for x in units of 1024 bytes or kB: the nearest
\* integer, halves up; NaN stays NaN
roundGB(x) ==
    IF x.kind = "NaN" THEN NaN
    ELSE Number((2 * x.value + 1048576) \div (2 * 1048576))

\* what getSystemRamGB() returns on platform p when execSync behaves as out
getSystemRamGB(p, out) ==
    IF p = "darwin"
    THEN IF out = Null THEN Number(8)
         ELSE roundGB(parseInt(out[1]))
    ELSE IF p = "linux"
    THEN IF out = Null THEN Number(8)
         ELSE IF matchDigits(out[1]) = Null THEN Number(8)
         ELSE roundGB(parseInt(matchDigits(out[1])[1]))
    ELSE Number(8)

RamInit ==
    /\ platform \in Platforms
    /\ cmdOut \in {Null} \cup {Some(o) : o \in CommandOutputs}
    /\ ramReturn = NotCalled
    /\ UiIdle
    /\ resolved = <<"none">>
    /\ SelIdle
    /\ EngineIdle
    /\ ChatIdle
    /\ RunIdle

\* one call of getSystemRamGB()
GetSystemRamGB ==
    /\ ramReturn = NotCalled
    /\ ramReturn' = getSystemRamGB(platform, cmdOut)
    /\ UNCHANGED <<platform, cmdOut, uiVars, resolved, selVars, engVars, chatVars, runVars>>

RamNext == GetSystemRamGB

SpecRam == RamInit /\ [][RamNext]_vars

----------------------------------------------------------------------------
(* Client: the store of stores/chat.js, App.vue and ChatWindow.vue *)

\* ids the server may select
UiModelIds ==
    {replaceFirst(FCustom, ".gguf")}
      \cup {pathToModelId(DownloadedFile(MODEL_TIERS[i].uri)) : i \in {3, 4}}

\* const modelBusy = computed(...)
modelBusy == autoSelecting \/ downloading \/ modelStatus.selectedModel = Null

\* <v-textarea :disabled="store.streaming">
inputDisabled == streaming

\* what fetchModelStatus() leaves in modelStatus when the row is `row`: the
\* answer of GET /status, or the empty status if the request fails
fetchModelStatus(row) ==
    {[selectedModel |-> getSelectedModel(row)], [selectedModel |-> Null]}

UiInit ==
    /\ UiIdle
    /\ ProbeIdle
    /\ resolved = <<"none">>
    /\ SelQuiet
    /\ settings \in {Null} \cup {Some(id) : id \in UiModelIds}
    /\ EngineIdle
    /\ ChatIdle
    /\ RunIdle

\* onMounted: fetchModelStatus(), then autoSelectModel() if nothing is selected
Mounted ==
    /\ mpc = "start"
    /\ \E status \in fetchModelStatus(settings) :
        /\ modelStatus' = status
        /\ IF status.selectedModel = Null
           THEN autoSelecting' = TRUE /\ apc' = "posted"
           ELSE UNCHANGED <<autoSelecting, apc>>
    /\ mpc' = "mounted"
    /\ UNCHANGED <<downloading, streaming, spc, probeVars, resolved, selVars, engVars, chatVars,
                   runVars>>

\* autoSelectModel: a result event arrives (the server has persisted its
\* selection) and the status is fetched again
AutoSelectResultEvent ==
    /\ apc = "posted"
    /\ \E id \in UiModelIds :
        /\ settings' = setSelectedModel(id)
        /\ modelStatus' \in fetchModelStatus(settings')
    /\ UNCHANGED <<autoSelecting, downloading, streaming, mpc, apc, spc, probeVars, resolved, disk,
                   ramGB, reqVars, engVars, chatVars, runVars>>

\* autoSelectModel: the sentinel arrives (status fetched), or the stream
\* ends or fails without it; finally autoSelecting is reset
AutoSelectEnd ==
    /\ apc = "posted"
    /\ modelStatus' \in fetchModelStatus(settings) \cup {modelStatus}
    /\ autoSelecting' = FALSE
    /\ apc' = "idle"
    /\ UNCHANGED <<downloading, streaming, mpc, spc, probeVars, resolved, selVars, engVars, chatVars,
                   runVars>>

\* selectModel(id) is called from the menu; needsDownload when the entry is
\* listed as not downloaded
SelectModelCall ==
    /\ mpc = "mounted"
    /\ spc = "idle"
    /\ \E needsDownload \in BOOLEAN :
        downloading' = IF needsDownload THEN TRUE ELSE downloading
    /\ spc' = "posted"
    /\ UNCHANGED <<modelStatus, autoSelecting, streaming, mpc, apc, probeVars, resolved, selVars,
                   engVars, chatVars, runVars>>

\* selectModel: a downloading event arrives
SelectDownloadingEvent ==
    /\ spc = "posted"
    /\ ~downloading
    /\ downloading' = TRUE
    /\ UNCHANGED <<modelStatus, autoSelecting, streaming, mpc, apc, spc, probeVars, resolved, selVars,
                   engVars, chatVars, runVars>>

\* selectModel: the response ends (the server has persisted the selection
\* or not), the status is fetched unless the request failed; finally
\* downloading is reset
SelectModelEnd ==
    /\ spc = "posted"
    /\ settings' \in {settings} \cup {setSelectedModel(id) : id \in UiModelIds}
    /\ modelStatus' \in fetchModelStatus(settings') \cup {modelStatus}
    /\ downloading' = FALSE
    /\ spc' = "idle"
    /\ UNCHANGED <<autoSelecting, streaming, mpc, apc, probeVars, resolved, disk, ramGB, reqVars,
                   engVars, chatVars, runVars>>

\* the user types a message into the input and sends it: sendMessage
SendMessage ==
    /\ mpc = "mounted"
    /\ ~inputDisabled
    /\ ~streaming
    /\ streaming' = TRUE
    /\ UNCHANGED <<modelStatus, autoSelecting, downloading, mpc, apc, spc, probeVars, resolved,
                   selVars, engVars, chatVars, runVars>>

\* sendMessage returns: the sentinel arrived, or finally
SendMessageEnd ==
    /\ streaming
    /\ streaming' = FALSE
    /\ UNCHANGED <<modelStatus, autoSelecting, downloading, mpc, apc, spc, probeVars, resolved,
                   selVars, engVars, chatVars, runVars>>

UiNext ==
    \/ Mounted
    \/ AutoSelectResultEvent
    \/ AutoSelectEnd
    \/ SelectModelCall
    \/ SelectDownloadingEvent
    \/ SelectModelEnd
    \/ SendMessage
    \/ SendMessageEnd

SpecUi == UiInit /\ [][UiNext]_vars

----------------------------------------------------------------------------
(* Identifiers of model files: pathToModelId against listLocalModels *)

NamesInit ==
    /\ disk \in {d \in SUBSET {AllFiles[i] : i \in DOMAIN AllFiles} :
                    d # {} /\ Cardinality(d) <= MaxInitialFiles}
    /\ ramGB = 8
    /\ ReqQuiet
    /\ settings = Null
    /\ EngineIdle
    /\ ChatIdle
    /\ RunIdle
    /\ RestIdle

\* a selection of a file of the directory is persisted, as autoSelect and
\* the download path of POST /select do: setSelectedModel(pathToModelId(path))
PersistPath ==
    /\ pc = "idle"
    /\ \E m \in {listLocalModels(disk)[i] : i \in DOMAIN listLocalModels(disk)} :
        /\ modelPath' = m.path
        /\ settings' = setSelectedModel(pathToModelId(m.path))
    /\ pc' = "persisted"
    /\ UNCHANGED <<disk, ramGB, stream, reply, replyBody, ended, models, candidates, ci,
                   reqId, settingsBefore, lastTest, available, gotModel, engVars, chatVars,
                   runVars, otherVars>>

\* the persisted id is resolved: resolveModelId(id)
ResolvePersisted ==
    /\ pc = "persisted"
    /\ resolved' = resolveModelId(disk, settings[1])
    /\ pc' = "done"
    /\ UNCHANGED <<envVars, stream, reply, replyBody, ended, models, candidates, ci,
                   modelPath, reqId, settingsBefore, lastTest, available, gotModel, engVars,
                   chatVars, runVars, probeVars, uiVars>>

NamesNext ==
    \/ PersistPath
    \/ ResolvePersisted

SpecNames == NamesInit /\ [][NamesNext]_vars

----------
(* Two POST /auto-select requests in succession; each tier's download and
   speed test behave the same way in both runs *)

TwiceRamValues == {8, 14}

\* the tiers that can be candidates under TwiceRamValues
TwiceTierNames == {t.name : t \in {u \in Tiers : u.minRam <= 14}}

\* a speed test throws (<<>>), is slow, or is fast
TwiceSpeedOutcomes == {<<>>, <<0, 1000>>, <<5, 1000>>}

TwiceFiles == {DownloadedFile(MODEL_TIERS[i].uri) : i \in DOMAIN MODEL_TIERS} \cup {FDual}

TwiceInit ==
    /\ disk \in {d \in SUBSET TwiceFiles : Cardinality(d) <= MaxInitialFiles}
    /\ ramGB \in TwiceRamValues
    /\ settings = Null
    /\ ReqQuiet
    /\ EngineIdle
    /\ ChatIdle
    /\ RestIdle
    /\ outcome \in [TwiceTierNames -> [download : BOOLEAN, speed : TwiceSpeedOutcomes]]
    /\ runNo = 1
    /\ firstSel = Null
    /\ firstDisk = disk

\* what the tier's download and speed test do in this behaviour
OutcomeOf(tier) == outcome[tier.name]

TwiceStart ==
    /\ runNo \in {1, 2}
    /\ AutoSelectStart

TwiceCandidate ==
    /\ runNo \in {1, 2}
    /\ AutoSelectCandidate

TwicePullOk ==
    /\ runNo \in {1, 2}
    /\ pc = "as_pull"
    /\ OutcomeOf(candidates[ci]).download
    /\ AutoSelectPullOk

TwicePullFail ==
    /\ runNo \in {1, 2}
    /\ pc = "as_pull"
    /\ ~OutcomeOf(candidates[ci]).download
    /\ AutoSelectPullFail

TwiceTestDone ==
    /\ runNo \in {1, 2}
    /\ pc = "as_test"
    /\ OutcomeOf(candidates[ci]).speed # <<>>
    /\ AutoSelectTestDone
    /\ lastTest' = speedTest(OutcomeOf(candidates[ci]).speed)

TwiceTestThrow ==
    /\ runNo \in {1, 2}
    /\ pc = "as_test"
    /\ OutcomeOf(candidates[ci]).speed = <<>>
    /\ AutoSelectTestThrow

TwiceRescan ==
    /\ runNo \in {1, 2}
    /\ AutoSelectRescan

TwiceLastOk ==
    /\ runNo \in {1, 2}
    /\ pc = "as_last"
    /\ OutcomeOf(lastResortOf(candidates)).download
    /\ AutoSelectLastOk

TwiceLastFail ==
    /\ runNo \in {1, 2}
    /\ pc = "as_last"
    /\ ~OutcomeOf(lastResortOf(candidates)).download
    /\ AutoSelectLastFail

\* what a finished run selected: the persisted id, null after an error
RunSelected == IF HasStep(stream, "result") THEN settings ELSE Null

\* the first request is over; the client sends the second one
TwiceAgain ==
    /\ runNo = 1
    /\ pc = "done"
    /\ runNo' = 2
    /\ firstSel' = RunSelected
    /\ pc' = "idle"
    /\ stream' = <<>>
    /\ reply' = "none"
    /\ replyBody' = Null
    /\ ended' = FALSE
    /\ models' = <<>>
    /\ candidates' = <<>>
    /\ ci' = 0
    /\ modelPath' = <<>>
    /\ reqId' = <<>>
    /\ settingsBefore' = settings
    /\ lastTest' = <<>>
    /\ available' = <<>>
    /\ gotModel' = Null
    /\ UNCHANGED <<envVars, engVars, chatVars, outcome, firstDisk, otherVars>>

TwiceNext ==
    \/ TwiceStart
    \/ TwiceCandidate
    \/ TwicePullOk
    \/ TwicePullFail
    \/ TwiceTestDone
    \/ TwiceTestThrow
    \/ TwiceRescan
    \/ TwiceLastOk
    \/ TwiceLastFail
    \/ TwiceAgain

SpecTwice == TwiceInit /\ [][TwiceNext]_vars


----------------------------------------------------------------------------
(* C1 *)

----------------------------------------------------------------------------
(* C2 *)

\* C2: among the pulling/testing events of one Auto-Select run, the first
\* event of a qualifying tier that needs less RAM precedes the first event
\* of a qualifying tier that needs more; the smallest qualifying tier is
\* always attempted.
C2_SmallerTierAttemptedFirst ==
    AutoSelectRun =>
        /\ \A a, b \in QualifyingTiers :
              (a.minRam < b.minRam /\ FirstAttempt(stream, b.name) # 0)
                  => /\ FirstAttempt(stream, a.name) # 0
                     /\ FirstAttempt(stream, a.name) < FirstAttempt(stream, b.name)
        /\ pc = "done" =>
              \E a \in QualifyingTiers :
                  /\ \A b \in QualifyingTiers : a.minRam <= b.minRam
                  /\ FirstAttempt(stream, a.name) # 0

\* a finished run in which the three tiers that fit 14 GB were all attempted
C2_Witness ==
    /\ AutoSelectRun
    /\ pc = "done"
    /\ Cardinality({t \in QualifyingTiers : FirstAttempt(stream, t.name) # 0}) = 3


----------------------------------------------------------------------------
(* C3 *)

\* C3: listAvailableModels() has no entry for a tier whose minRam exceeds
\* the detected RAM: no entry that carries the tier's uri, and no entry for
\* a local file whose name the tier matches.
C3_NoTooLargeTierListed ==
    \A i \in DOMAIN available :
        \A t \in Tiers :
            t.minRam > ramGB =>
                /\ available[i].uri # Some(t.uri)
                /\ ~(available[i].downloaded /\ tierMatches(t.uri, available[i].id))

----------------------------------------------------------------------------
(* C4 *)

----------------------------------------------------------------------------
(* C6 *)

----------------------------------------------------------------------------
(* C7 *)

SmallestCandidate == CHOOSE c \in CandidateSet : \A d \in CandidateSet : c.minRam <= d.minRam

\* the run reached the last-resort download and finished
LastResortDone ==
    /\ AutoSelectRun
    /\ pc = "done"
    /\ stream[Len(stream) - 2].step = "pulling"
    /\ LocalCandidates = {}

\* C7: with no candidate past the speed bar and none local, Auto-Select
\* downloads the candidate with the lowest minRam; on success it selects it
\* with fallback true and no speed; on failure the error names that candidate
\* and the cause.
C7_LastResortIsSmallestTier ==
    /\ (AutoSelectRun /\ pc = "as_last")
          => stream[Len(stream)] = PullingEvent(SmallestCandidate.name)
    /\ (LastResortDone /\ HasStep(stream, "result"))
          => /\ TheEvent(stream, "result") =
                    ResultEvent(SmallestCandidate.name, ramGB, <<>>, TRUE)
             /\ settings = Some(pathToModelId(pathJoin(MODELS_DIR,
                                   DownloadedFile(SmallestCandidate.uri))))
    /\ (LastResortDone /\ HasStep(stream, "error"))
          => \E cause \in DownloadErrors :
                TheEvent(stream, "error").error =
                    <<"Could not download any model. Last tried: ",
                      SmallestCandidate.name, ". Error: ">> \o cause

----------------------------------------------------------------------------
(* C8 *)

LargestLocalCandidate ==
    CHOOSE c \in LocalCandidates : \A d \in LocalCandidates : d.minRam <= c.minRam

----------------------------------------------------------------------------
(* C10 *)

\* C10: POST /select with the id of a local model answers with JSON, opens
\* no stream and starts no download; selectedModel is the submitted id and
\* getSelectedModel() then returns that id.
C10_SelectLocalThenGet ==
    (pc = "done" /\ reply = "json" /\ replyBody # Null) =>
        /\ stream = <<>>
        /\ ~ended
        /\ modelPath = <<>>
        /\ replyBody[1].selectedModel = reqId
        /\ getSelectedModel(settings) = Some(reqId)
        /\ (gotModel # Null => gotModel = Some(reqId))


----------------------------------------------------------------------------
(* C5 *)

\* C5: the event stream of a chat send ends with exactly one [DONE] record
\* as its last record on every path: completion, an upstream body that ends
\* without a completion marker, and a failure before or during streaming
\* (then an error record precedes the sentinel).
C5_ChatStreamEndsWithSentinel ==
    cended =>
        /\ Len(cstream) > 0
        /\ cstream[Len(cstream)].step = "[DONE]"
        /\ Cardinality({i \in DOMAIN cstream : cstream[i].step = "[DONE]"}) = 1
        /\ (\E i \in DOMAIN cstream : cstream[i].step = "error")
              => cstream[Len(cstream) - 1].step = "error"

----------------------------------------------------------------------------
(* C9 *)

HandlesIn(state) == {h \in DOMAIN handles : handles[h].state = state}

\* C9: at most one model is resident and at most one load is in progress at
\* any moment, whatever the interleaving of callers; a load begins only after
\* the previous model was disposed, and no model is disposed twice.
C9_OneResidentOneLoad ==
    /\ Cardinality(HandlesIn("resident")) <= 1
    /\ Cardinality(HandlesIn("loading")) <= 1
    /\ HandlesIn("loading") # {} => HandlesIn("resident") = {}
    /\ \A h \in DOMAIN handles : handles[h].disposes <= 1

----------------------------------------------------------------------------
(* C11 *)

----------------------------------------------------------------------------
(* C12 *)

\* C12: when the id given to Manual Select is not a local file but matches a
\* tier, a downloading event is written before the download; after a
\* successful download the id derived from the downloaded file is persisted
\* and one done event carries exactly that id; after a failed download an
\* error record is written instead of done and the settings row is unchanged.
C12_DownloadThenPersistThenDone ==
    SelectDownloadRun =>
        /\ findTierUri(reqId) # Null
        /\ pc = "sel_download" =>
              /\ stream = <<DownloadingEvent(getDisplayName(reqId))>>
              /\ resolveModelId(disk, reqId) = Null
              /\ modelPath = <<>>
              /\ settings = settingsBefore
        /\ pc = "done" =>
              /\ Len(stream) = 3
              /\ HasStep(stream, "done") <=> ~HasStep(stream, "error")
              /\ HasStep(stream, "done") =>
                    /\ stream[2].step = "done"
                    /\ modelPath # <<>>
                    /\ basename(modelPath) \in disk
                    /\ stream[2].selectedModel = pathToModelId(modelPath)
                    /\ settings = Some(stream[2].selectedModel)
              /\ HasStep(stream, "error") =>
                    /\ stream[2].step = "error"
                    /\ modelPath = <<>>
                    /\ ~StatusQueried => settings = settingsBefore

\* a tier uri was submitted, the download succeeded and replaced a selection
C12_Witness ==
    /\ SelectDownloadRun
    /\ pc = "done"
    /\ HasStep(stream, "done")
    /\ reqId = MODEL_TIERS[3].uri
    /\ settingsBefore # Null
    /\ settings # settingsBefore

----------------------------------------------------------------------------
(* C13 *)

HasSymbol(s, c) == \E i \in DOMAIN s : s[i] = c

\* the part of a path after its last forward slash or backslash, without a
\* trailing model-file extension
FilenameMinusExtension(v) ==
    LET seps == {i \in DOMAIN v : v[i] \in {"/", "\\"}}
        last == IF seps = {} THEN 0 ELSE CHOOSE i \in seps : \A j \in seps : j <= i
    IN  replaceSuffix(SubSeq(v, last + 1, Len(v)), ".gguf")

\* C13: whatever value is stored, getSelectedModel() returns null or a bare
\* identifier with no forward slash, backslash or colon; for a stored path it
\* returns the filename minus the extension and leaves that identifier
\* stored; a colon-qualified legacy value yields null.
C13_GetReturnsBareIdentifier ==
    pc \in {"got", "set_got"} =>
        /\ gotModel # Null =>
              /\ ~HasSymbol(gotModel[1], "/")
              /\ ~HasSymbol(gotModel[1], "\\")
              /\ ~HasSymbol(gotModel[1], ":")
        /\ (settingsBefore # Null /\ (HasSymbol(settingsBefore[1], "/")
                                        \/ HasSymbol(settingsBefore[1], "\\"))) =>
              /\ gotModel = Some(FilenameMinusExtension(settingsBefore[1]))
              /\ settings = gotModel
        /\ (settingsBefore # Null /\ HasSymbol(settingsBefore[1], ":")
               /\ ~HasSymbol(settingsBefore[1], "/") /\ ~HasSymbol(settingsBefore[1], "\\")) =>
              gotModel = Null

----------------------------------------------------------------------------
(* C14 *)

\* setSelectedModel(reqId) was followed by getSelectedModel() with no write between
SetThenGet == pc = "set_got"

\* C14 as stated: for every id with no path separator and no colon,
\* setSelectedModel(id) followed by getSelectedModel() returns id.
C14_SetGetRoundTrip ==
    (SetThenGet /\ ~HasSymbol(reqId, "/") /\ ~HasSymbol(reqId, "\\") /\ ~HasSymbol(reqId, ":"))
        => gotModel = Some(reqId)

\* C14 amended: for every non-empty id with no path separator and no colon,
\* setSelectedModel(id) followed by getSelectedModel() returns id and leaves
\* id stored.
C14_SetGetRoundTripNonEmpty ==
    (SetThenGet /\ reqId # <<>>
       /\ ~HasSymbol(reqId, "/") /\ ~HasSymbol(reqId, "\\") /\ ~HasSymbol(reqId, ":"))
        => /\ gotModel = Some(reqId)
           /\ settings = Some(reqId)

\* an id that ends in the model-file extension went through the round trip
C14_Witness ==
    /\ SetThenGet
    /\ reqId = <<"a", ".gguf">>
    /\ gotModel = Some(reqId)

----------------------------------------------------------------------------
(* C15 *)

\* the second run has ended and saw the same local files as the first
SecondRunSameFiles ==
    /\ runNo = 2
    /\ pc = "done"
    /\ models = listLocalModels(firstDisk)

----------------------------------------------------------------------------
(* C16 *)

\* the run wrote a result event
HasResult == AutoSelectRun /\ HasStep(stream, "result")

\* C16 as stated: in every result event of Auto-Select (speed-test win,
\* local rescan, last-resort download) fallback is true if and only if the
\* selected candidate is not the first candidate tried in the run.
C16_FallbackIffNotFirstTried ==
    HasResult =>
        (TheEvent(stream, "result").fallback
            <=> TheEvent(stream, "result").model # <<candidates[1].name>>)

\* C16 amended: in the result event of a speed-test win fallback is true if
\* and only if the selected candidate is not the first candidate tried (so
\* it is false when the first candidate passes its test); in the result
\* event of the local rescan and of the last-resort download fallback is
\* always true, also when the selected candidate is the first one tried.
C16_FallbackBySelectionPath ==
    HasResult =>
        LET r == TheEvent(stream, "result")
        IN  /\ CountStep(stream, "result") = 1
            /\ r.speed # <<>> => (r.fallback <=> r.model # <<candidates[1].name>>)
            /\ r.speed = <<>> => r.fallback

\* the rescan selected the first candidate tried, with fallback true
C16_Witness ==
    /\ HasResult
    /\ TheEvent(stream, "result").speed = <<>>
    /\ TheEvent(stream, "result").model = <<candidates[1].name>>
    /\ TheEvent(stream, "result").fallback
    /\ HasStep(stream, "testing")
    /\ ~HasStep(stream, "pulling")

\* C17: after a chat send is cancelled the server writes no further token
\* or error record, only the terminator, and consumes no further engine
\* output.
C17_CancelStopsStream ==
    cancelled =>
        /\ upstreamN = cancelAt[2]
        /\ \A i \in DOMAIN cstream : i > cancelAt[1] => cstream[i].step = "[DONE]"

\* C18: a chat send for which no model is resolvable is answered with 503
\* and opens no event stream.
C18_NoModelNoStream ==
    creply = "sse" => getSelectedModelPath(cstart, disk) # Null

\* C19: a chat send reads the Selected Model Setting once, at its start, and
\* uses that model for the whole send including title generation; writes of
\* the setting by other requests during the send do not change the model
\* used, and the send does not overwrite them: the last write stays.
C19_ModelReadOnceAtStart ==
    cpc # "idle" =>
        /\ cmodel = chatModelOf(cstart)
        /\ titleModel \in {Null, Some(cmodel)}
        /\ writes = 0 => settings = getSelectedModelRow(cstart)
        /\ writes > 0 => settings = lastWrite

\* a send finished and generated a title after another request selected a
\* different model
C19_Witness ==
    /\ cpc = "done"
    /\ titleModel # Null
    /\ writes > 0
    /\ chatModelOf(lastWrite) # cmodel

\* positions of the pulling events for the tier called name
PullsOf(records, name) ==
    {i \in DOMAIN records : records[i].step = "pulling" /\ records[i].model = <<name>>}

\* C20 as stated: within one Auto-Select run a download is attempted at most
\* once per tier.
C20_AtMostOneDownloadPerTier ==
    AutoSelectRun =>
        \A k \in DOMAIN candidates : Cardinality(PullsOf(stream, candidates[k].name)) <= 1

\* C20 amended: within the candidate loop of one Auto-Select run a download
\* is attempted at most once per tier, in candidate order, and a failed
\* download or test moves on to the next candidate; only the last-resort
\* step, reached after every candidate was downloaded once in the loop,
\* attempts one more download, of the last candidate, and nothing is
\* tested after it.
C20_OneDownloadPerTierInLoop ==
    AutoSelectRun =>
        \A k \in DOMAIN candidates :
            LET pulls == PullsOf(stream, candidates[k].name)
                again == CHOOSE i \in pulls : \A j \in pulls : j <= i
            IN  /\ Cardinality(pulls) <= (IF k = Len(candidates) THEN 2 ELSE 1)
                /\ Cardinality(pulls) = 2 =>
                    /\ CountStep(stream, "pulling") = Len(candidates) + 1
                    /\ ci > Len(candidates)
                    /\ \A j \in DOMAIN stream :
                        j > again => stream[j].step \in {"result", "error", "[DONE]"}
                /\ (pc \in {"as_loop", "as_pull", "as_test"} /\ k > ci) => pulls = {}

\* the last candidate was downloaded in the loop and again as the last resort
C20_Witness ==
    /\ AutoSelectRun
    /\ Cardinality(PullsOf(stream, lastResortOf(candidates).name)) = 2
    /\ HasStep(stream, "testing")
    /\ HasStep(stream, "result")

\* what GET /status answers in the state in hand
statusReply ==
    LET selectedModel == getSelectedModel(settings)
    IN  [selectedModel |-> selectedModel,
         selectedModelName |->
             IF selectedModel # Null THEN Some(getDisplayName(selectedModel[1])) ELSE Null,
         available |-> listAvailableModels(ramGB, disk)]

\* the tier that the id of the Manual Select request names
RequestedTier == CHOOSE t \in Tiers : Some(t.uri) = findTierUri(reqId)

\* Manual Select downloaded a tier model and ended with a done event
SelectDownloadDone == SelectDownloadRun /\ HasStep(stream, "done") /\ pc = "done"

\* C21: after Manual Select of an undownloaded tier model ended with a done
\* event, GET /status reports the tier's display name as selectedModelName
\* and lists the tier's entry with downloaded = true.
C21_StatusAfterDownload ==
    SelectDownloadDone =>
        /\ statusReply.selectedModelName = Some(<<RequestedTier.name>>)
        /\ \E i \in DOMAIN statusReply.available :
            /\ statusReply.available[i].uri = Some(RequestedTier.uri)
            /\ statusReply.available[i].name = <<RequestedTier.name>>
            /\ statusReply.available[i].downloaded

\* C21 amended: after Manual Select of an undownloaded tier model that fits
\* the detected RAM ended with a done event, GET /status reports the tier's
\* display name as selectedModelName and lists the tier's entry with
\* downloaded = true.
C21_StatusAfterDownloadFits ==
    (SelectDownloadDone /\ RequestedTier.minRam <= ramGB) =>
        /\ statusReply.selectedModelName = Some(<<RequestedTier.name>>)
        /\ \E i \in DOMAIN statusReply.available :
            /\ statusReply.available[i].uri = Some(RequestedTier.uri)
            /\ statusReply.available[i].name = <<RequestedTier.name>>
            /\ statusReply.available[i].downloaded

\* the probe failed: the platform is unsupported, the command failed, or
\* its output holds no number where one is read
ProbeFailed ==
    \/ platform \notin {"darwin", "linux"}
    \/ cmdOut = Null
    \/ (platform = "darwin" /\ parseInt(cmdOut[1]) = NaN)
    \/ (platform = "linux" /\ matchDigits(cmdOut[1]) = Null)

\* C22: the RAM probe always returns an integer number of gigabytes, and on
\* any failure (unsupported platform, failing command, output that cannot be
\* parsed as a number) it returns the default 8.
C22_RamProbeReturnsInteger ==
    ramReturn # NotCalled =>
        /\ ramReturn.kind = "number"
        /\ ProbeFailed => ramReturn = Number(8)

\* C23: for every detected RAM value and every set of local model files
\* (including a file whose name matches more than one tier) the list that
\* listAvailableModels() returned has no two entries with the same id.
C23_AvailableIdsDistinct ==
    StatusQueried =>
        \A i, j \in DOMAIN available : i # j => available[i].id # available[j].id

\* C24: the chat message input is disabled in every state in which no model
\* is selected or an auto-select or model download is in progress, and it
\* is enabled once a model is selected and no such operation (and no chat
\* send) is running.
C24_InputDisabledWhileModelBusy ==
    mpc = "mounted" =>
        /\ modelBusy => inputDisabled
        /\ (~modelBusy /\ ~streaming) => ~inputDisabled

\* the tier that the result event of the run announces
AnnouncedTier == CHOOSE t \in Tiers : <<t.name>> = TheEvent(stream, "result").model

C26_NoErrorWhileCandidateOnDisk ==
    (AutoSelectRun /\ HasStep(stream, "error")) =>
        \A c \in CandidateSet : ~isModelAvailable(listLocalModels(disk), c.uri)

\* Manual Select downloaded a tier that fits, next to a file of another tier
C21_Witness ==
    /\ SelectDownloadDone
    /\ RequestedTier.minRam <= ramGB
    /\ RequestedTier.minRam > 0
    /\ reqId = RequestedTier.uri
    /\ Cardinality(disk) > 1
    /\ statusReply.selectedModel # getSelectedModel(settingsBefore)

\* id names a tier model that is too large for the detected RAM: some tier
\* matches it and every tier that matches it needs more RAM
TooLargeForRam(id) ==
    /\ \E t \in Tiers : tierMatches(t.uri, id)
    /\ \A t \in Tiers : tierMatches(t.uri, id) => t.minRam > ramGB

\* the request in hand persisted a selection
SelectionPersisted ==
    \/ AutoSelectRun /\ HasStep(stream, "result")
    \/ SelectDownloadRun /\ HasStep(stream, "done")
    \/ reply = "json" /\ replyBody # Null

C28_StreamingModelNotDisposed ==
    \A c \in Callers : epc[c] = "prompt" => handles[emodel[c]].state # "disposed"

\* C29: loadModel never returns a model handle that has already been
\* disposed: a handle it returns is that of a resident model of the
\* requested path.
C29_LoadModelReturnsLiveHandle ==
    [][\A c \in Callers :
          (epc[c] # "loaded" /\ epc'[c] = "loaded") =>
              /\ handles'[emodel'[c]].state = "resident"
              /\ handles'[emodel'[c]].path = epath'[c]]_vars

\* C30: for every model file in the models directory, pathToModelId of its
\* path is the id under which listLocalModels lists it, so that
\* resolveModelId(pathToModelId(path)) returns that same path.
C30_PersistedIdResolvesBack ==
    /\ pc = "persisted" =>
        \E i \in DOMAIN listLocalModels(disk) :
            /\ listLocalModels(disk)[i].path = modelPath
            /\ listLocalModels(disk)[i].name = settings[1]
    /\ pc = "done" => resolved = Some(modelPath)

====
